---------------------------- MODULE Spec2Model ----------------------------
(***************************************************************************)
(* Model of FileSync (src/client/main.py): a polling loop that keeps a set *)
(* of tracked files consistent between the local machine and one remote    *)
(* host, deciding by MD5 digests kept in config.json.                      *)
(*                                                                         *)
(* State: the process position (pc, idx), the in-memory self.config, the   *)
(* file config.json, the local and the remote file system, plus history    *)
(* variables that record what the handling of the current file did.        *)
(***************************************************************************)
EXTENDS Integers, Sequences, FiniteSets, TLC

(* ------------------------------ bounds -------------------------------- *)
\* distinct file contents the environment can write (0 is "no file")
MaxContent == 2
\* environment steps (user edits, remote edits, restarts) in one behaviour
MaxEnv == 3
\* tracked files entered at first-run setup
MaxFiles == 2
\* open remote sessions that are told apart (the count stops there)
MaxSessions == 2

(* ----------------------------- constants ------------------------------ *)
\* self.REMOTE_PATH = f'.{self.NAME}'
REMOTE_PATH == ".FileSync"
\* candidate local paths, as lists of components (split by os.path.sep,
\* taken to be "/" as on the remote side): two of them share a base name,
\* and one is spelled like its own remote path
Paths == { <<"docs", "a">>, <<".FileSync", "a">>, <<"b">> }
\* content value of a path at which no file exists (os.path.exists is False)
Absent == 0
Contents == 1..MaxContent

VARIABLES
  pc,          \* position of the process in main.py
  idx,         \* index of `file` in the for loop of sync()
  config,      \* self.config, the in-memory configuration
  configFile,  \* config.json: [exists, data]
  localFS,     \* local path -> content (Absent when there is no file)
  remoteFS,    \* remote path -> content (Absent when there is no file)
  envCount,    \* environment steps taken so far
  pre,         \* history: what the handling of `file` started from
  trace,       \* history: calls made for `file` in this cycle, with results
  lastSync,    \* history: contents at the last successful recorded transfer
  handled,     \* history: the files handled so far in the current cycle
  boot,        \* history: the startup steps of this process, with results
  remoteDir,   \* the folder .FileSync exists on the remote host
  store,       \* what reading and writing config.json currently meets
  sessions     \* remote sessions the running process holds open

vars == <<pc, idx, config, configFile, localFS, remoteFS, envCount, pre,
          trace, lastSync, handled, boot, remoteDir, store, sessions>>

(* ------------------------- python values ------------------------------ *)
\* an Optional[dict]: json null, or a dict (a function with a finite domain)
None == [null |-> TRUE, d |-> <<>>]
Some(dict) == [null |-> FALSE, d |-> dict]
EmptyDict == <<>>
\* python truthiness of an Optional[dict]: None and {} are falsy
Truthy(x) == (~x.null) /\ (DOMAIN x.d # {})
\* `k in x` for a dict x
HasKey(x, k) == (~x.null) /\ (k \in DOMAIN x.d)
\* {k: v}
Single(k, v) == [x \in {k} |-> v]

\* hashlib.md5(content).hexdigest(): a fixed-length digest of the content
MD5(c) == << c \div 2, c % 2 >>

secure_compare(hash1, hash2) ==
  IF Len(hash1) # Len(hash2) THEN FALSE ELSE hash1 = hash2

\* f'{self.REMOTE_PATH}/{filepath.split(os.path.sep)[::-1][0]}'
RemotePath(filepath) == << REMOTE_PATH, filepath[Len(filepath)] >>

RemotePaths == { RemotePath(p) : p \in Paths }

CONFIG_TEMPLATE ==
  [ hostname      |-> "",
    port          |-> 22,
    username      |-> "",
    password      |-> "",
    local_files   |-> <<>>,
    local_hashes  |-> Some(EmptyDict),
    remote_hashes |-> Some(EmptyDict) ]

(* -------------------------------- JSON --------------------------------- *)
\* the text of config.json, as the JSON value it spells
JNull == [t |-> "null"]
JString(s) == [t |-> "string", v |-> s]
JNumber(n) == [t |-> "number", v |-> n]
JArray(a) == [t |-> "array", v |-> a]
JObject(o) == [t |-> "object", v |-> o]

\* json.dumps of an Optional[dict] of strings: None is written as null
dumpsHashes(x) ==
  IF x.null THEN JNull
  ELSE JObject([k \in DOMAIN x.d |-> JString(x.d[k])])

\* json.dumps(config) (lines 130 and 438): a str becomes a string, an int a
\* number, a list an array, a dict an object, None becomes null
json_dumps(cfg) ==
  JObject([k \in DOMAIN cfg |->
             CASE k \in {"hostname", "username", "password"} ->
                    JString(cfg[k])
               [] k = "port" -> JNumber(cfg[k])
               [] k = "local_files" ->
                    JArray([i \in DOMAIN cfg[k] |-> JString(cfg[k][i])])
               [] OTHER -> dumpsHashes(cfg[k])])

\* json.loads of a value that holds no further array or object
loadsLeaf(j) == IF j.t = "null" THEN None ELSE j.v

\* A faulty variant of loadsValue: an empty object is read as None.
loadsValueEmptyAsNone(j) ==
  CASE j.t = "null" -> None
    [] j.t = "object" ->
         IF DOMAIN j.v = {} THEN None
         ELSE Some([k \in DOMAIN j.v |-> loadsLeaf(j.v[k])])
    [] j.t = "array" -> [i \in DOMAIN j.v |-> loadsLeaf(j.v[i])]
    [] OTHER -> j.v

\* json.loads of one value of the configuration: null becomes None, an
\* object a dict, an array a list, a string a str, a number an int
loadsValue(j) ==
  CASE j.t = "null" -> None
    [] j.t = "object" -> Some([k \in DOMAIN j.v |-> loadsLeaf(j.v[k])])
    [] j.t = "array" -> [i \in DOMAIN j.v |-> loadsLeaf(j.v[i])]
    [] OTHER -> j.v

\* json.loads(data) (lines 90 and 424) of the text of config.json
json_loads(doc) == [k \in DOMAIN doc.v |-> loadsValue(doc.v[k])]

\* os.path.exists(filepath)
exists(filepath) == localFS[filepath] # Absent

\* getMD5(filepath) of the current local content
getMD5(filepath) == MD5(localFS[filepath])

(* -------------------------- history values ---------------------------- *)
NoPre == [ local |-> Absent, remote |-> Absent,
           data |-> CONFIG_TEMPLATE, cfg |-> CONFIG_TEMPLATE ]
NoSync == << Absent, Absent >>
\* one startup step with its outcome, what it read from stderr, its result
Booted(step, out, stderr, ret) ==
  [step |-> step, out |-> out, stderr |-> stderr, ret |-> ret]

Range(s) == { s[i] : i \in DOMAIN s }

\* the lists of files the user can enter at first-run setup
TrackLists ==
  { s \in UNION { [1..n -> Paths] : n \in 0..MaxFiles } :
      \A i, j \in DOMAIN s : i # j => s[i] # s[j] }

(* ------------------------------- Init --------------------------------- *)
\* A first run: no config.json yet, the candidate files exist locally, the
\* remote folder holds nothing.
Init ==
  /\ pc = "initConfig"
  /\ idx = 1
  /\ config = CONFIG_TEMPLATE
  /\ configFile = [exists |-> FALSE, data |-> JNull]
  /\ localFS = [p \in Paths |-> 1]
  /\ remoteFS = [r \in RemotePaths |-> Absent]
  /\ envCount = 0
  /\ pre = NoPre
  /\ trace = <<>>
  /\ lastSync = [p \in Paths |-> NoSync]
  /\ handled = <<>>
  /\ boot = <<>>
  /\ remoteDir = FALSE
  /\ store = "ok"
  /\ sessions = 0

(* ------------------------------ startup ------------------------------- *)
\* what reading and writing config.json can meet: nothing, an error on
\* open(..., 'r'), text that json.loads rejects, an error on open(..., 'w')
StoreStates == {"ok", "unreadable", "corrupt", "readonly"}

\* A faulty variant of initConfigFails: text that is not JSON is accepted.
initConfigFailsOnRead(st) == st = "unreadable"

\* initConfig ends in sys.exit(1) (lines 85-93): config.json exists and
\* reading it or parsing it raises
initConfigFails(st) == st \in {"unreadable", "corrupt"}

\* initConfig, config.json exists: read and parse it (lines 81-95)
InitConfigLoad ==
  /\ pc = "initConfig"
  /\ configFile.exists
  /\ IF initConfigFails(store)
     THEN /\ pc' = "exit"
          /\ boot' = << Booted("initConfig", store, "", FALSE) >>
          /\ UNCHANGED config
     ELSE /\ config' = json_loads(configFile.data)
          /\ pc' = "checkConnection"
          /\ boot' = << Booted("initConfig", "loaded", "", TRUE) >>
  /\ UNCHANGED <<idx, configFile, localFS, remoteFS, envCount, pre, trace,
                 lastSync, handled, remoteDir, store, sessions>>

\* the configuration built by the interactive setup (lines 98-127)
NewConfig(files) ==
  [ CONFIG_TEMPLATE EXCEPT
      !.hostname = "host",
      !.username = "user",
      !.password = "pw",
      !.local_files = files,
      !.local_hashes = Some([f \in Range(files) |-> getMD5(f)]) ]

\* line 116: the test that sends a user who typed "stop" back to the
\* prompt (and, past the second time, to sys.exit(1) at line 119)
stopRefused(files) == Len(files) < 0

\* initConfig, no config.json: interactive setup, then save (lines 97-136).
\* The user adds the existing files `files` and then types "stop" until the
\* loop ends.
InitConfigCreate ==
  /\ pc = "initConfig"
  /\ ~configFile.exists
  /\ \E files \in TrackLists :
       /\ \A i \in DOMAIN files : exists(files[i])
       /\ IF stopRefused(files)
          THEN /\ pc' = "exit"
               /\ boot' = << Booted("initConfig", "nofiles", "", FALSE) >>
               /\ UNCHANGED <<config, configFile>>
          ELSE /\ config' = NewConfig(files)
               /\ configFile' = [exists |-> TRUE,
                                 data |-> json_dumps(NewConfig(files))]
               /\ pc' = "checkConnection"
               /\ boot' = << Booted("initConfig", "created", "", TRUE) >>
  /\ UNCHANGED <<idx, localFS, remoteFS, envCount, pre, trace, lastSync,
                 handled, remoteDir, store, sessions>>

\* __init__ line 72: the result of checkConnection only decides a log line
CheckConnection ==
  /\ pc = "checkConnection"
  /\ \E ok \in BOOLEAN : pc' = "initLocal"
  /\ UNCHANGED <<idx, config, configFile, localFS, remoteFS, envCount, pre,
                 trace, lastSync, handled, boot, remoteDir, store, sessions>>

\* initLocal() (lines 261-282): the result for the outcome of os.mkdir
initLocal(out) == out \in {"created", "exists"}

\* __main__ line 556: `if fs.initLocal()`
InitLocal ==
  /\ pc = "initLocal"
  /\ \E out \in {"created", "exists", "error"} :
       /\ boot' = Append(boot, Booted("initLocal", out, "", initLocal(out)))
       /\ pc' = IF initLocal(out) THEN "initRemote" ELSE "exit"
  /\ UNCHANGED <<idx, config, configFile, localFS, remoteFS, envCount, pre,
                 trace, lastSync, handled, remoteDir, store, sessions>>

\* what `mkdir .FileSync` does on the remote host (line 244)
mkdirOut(conn, canCreate) ==
  IF ~conn THEN "noconn"
  ELSE IF remoteDir THEN "exists"
  ELSE IF canCreate THEN "created" ELSE "failed"

\* what line 246 reads from stderr.  cli.close() at line 245 comes before
\* the read, so output that has not arrived by then is lost.
mkdirStderr(out, arrived) ==
  IF ~arrived THEN ""
  ELSE IF out = "exists" THEN "File exists"
  ELSE IF out = "failed" THEN "Permission denied"
  ELSE ""

\* A faulty variant of initRemote: any text on stderr is a failure.
initRemoteStrict(out, stderr) == out # "noconn" /\ stderr = ""

\* initRemote() (lines 236-259): its return value
initRemote(out, stderr) ==
  out # "noconn" /\ (stderr = "" \/ stderr = "File exists")

\* __main__ line 557: `if fs.initRemote()`, else sys.exit(1) at line 559
InitRemote ==
  /\ pc = "initRemote"
  /\ \E conn, canCreate, arrived \in BOOLEAN :
       LET out == mkdirOut(conn, canCreate)
           stderr == mkdirStderr(out, arrived)
       IN /\ remoteDir' = (remoteDir \/ out = "created")
          /\ boot' = Append(boot, Booted("initRemote", out, stderr,
                                         initRemote(out, stderr)))
          /\ pc' = IF initRemote(out, stderr) THEN "L499" ELSE "exit"
  /\ UNCHANGED <<idx, config, configFile, localFS, remoteFS, envCount, pre,
                 trace, lastSync, handled, store, sessions>>

(* ----------------------------- the store ------------------------------ *)
\* updateConfig(key, value) on the parsed content of config.json (lines
\* 429-435; it is parsed at line 424 and written back at line 438); both
\* callers pass a dict, so `type(value) is dict` is true.
\* dict.update() returns None, and that result is what line 431 assigns.
updateConfig(data, key, value) ==
  IF key \in DOMAIN data
  THEN IF Truthy(data[key])
       THEN [data EXCEPT ![key] = None]
       ELSE [data EXCEPT ![key] = Some(value)]
  ELSE [k \in (DOMAIN data) \cup {key} |->
          IF k = key THEN Some(value) ELSE data[k]]

\* A faulty variant of updateConfigFails: a failed write goes unnoticed.
updateConfigFailsOnRead(st) ==
  ~configFile.exists \/ st \in {"unreadable", "corrupt"}

\* updateConfig ends in sys.exit(1): config.json is missing (line 447),
\* cannot be read (421), is not JSON (427) or cannot be written (441)
updateConfigFails(st) == ~configFile.exists \/ st # "ok"

\* A faulty variant of selfConfig: the written configuration is taken over.
selfConfigRefreshed(cfg, written) == json_loads(written)

\* self.config once updateConfig is through, config.json then holding the
\* text `written`: updateConfig reads the file into its local `config`
\* (lines 418, 424), changes and writes that, and assigns nothing to
\* self.config, which line 71 set
selfConfig(cfg, written) == cfg

(* ------------------------------ probes -------------------------------- *)
\* A faulty variant of checkLocalFile: a file without a stored hash counts
\* as verified.
checkLocalFileLenient(filepath) ==
  IF exists(filepath)
  THEN IF Truthy(config.local_hashes)
          /\ HasKey(config.local_hashes, filepath)
       THEN secure_compare(getMD5(filepath),
                           config.local_hashes.d[filepath])
       ELSE TRUE
  ELSE FALSE

\* checkLocalFile(filepath) (lines 379-403)
checkLocalFile(filepath) ==
  IF exists(filepath)
  THEN IF Truthy(config.local_hashes)
          /\ HasKey(config.local_hashes, filepath)
       THEN secure_compare(getMD5(filepath),
                           config.local_hashes.d[filepath])
       ELSE FALSE
  ELSE FALSE

\* checkRemoteFile raises: line 361 indexes remote_hashes with remote_path
\* without a membership test (KeyError); line 363 hashes the local file
\* (FileNotFoundError when it is gone).
checkRemoteFileRaises(filepath, conn) ==
  /\ conn
  /\ remoteFS[RemotePath(filepath)] # Absent
  /\ Truthy(config.remote_hashes)
  /\ \/ ~HasKey(config.remote_hashes, RemotePath(filepath))
     \/ ~exists(filepath)

\* checkRemoteFile(filepath) (lines 340-377); conn: getSSHClient succeeded.
\* `md5sum` of a missing file writes to stderr; a None return is falsy.
checkRemoteFile(filepath, conn) ==
  IF ~conn THEN FALSE
  ELSE IF remoteFS[RemotePath(filepath)] = Absent THEN FALSE
  ELSE IF Truthy(config.remote_hashes)
       THEN secure_compare(MD5(remoteFS[RemotePath(filepath)]),
                           config.remote_hashes.d[RemotePath(filepath)])
       ELSE FALSE

(* ----------------------------- transfers ------------------------------ *)
\* outcomes of one SCP operation: done, no session, SCPException; nothing
\* can be put into a remote folder that does not exist
TransferOutcomes ==
  IF remoteDir THEN {"ok", "noconn", "scperr"} ELSE {"noconn", "scperr"}

\* getSCPClient() (lines 223-234) for a transfer with outcome `out`: the
\* number of open sessions once the transfer has returned.  The SSHClient
\* made at line 229 is a local of getSCPClient and is closed nowhere:
\* scp.close() (lines 298, 323) closes the channel of the copy, not the
\* session, and the except branches close nothing.
getSCPClient(out, n) ==
  IF out = "noconn" THEN n
  ELSE IF n < MaxSessions THEN n + 1 ELSE n

\* upload(filepath) raises: scp.put of a local file that is gone fails with
\* an OSError, which line 299 (except SCPException) does not catch
uploadRaises(filepath, out) == out # "noconn" /\ ~exists(filepath)

\* upload(filepath) (lines 284-307): its return value
upload(filepath, out) == out = "ok"

\* the remote file system after upload(filepath)
uploadFS(filepath, out) ==
  IF upload(filepath, out)
  THEN [remoteFS EXCEPT ![RemotePath(filepath)] = localFS[filepath]]
  ELSE remoteFS

\* the local file system after download(filepath): scp.get of a missing
\* remote file raises, and nothing is written
downloadFS(filepath, out) ==
  IF out = "ok" /\ remoteFS[RemotePath(filepath)] # Absent
  THEN [localFS EXCEPT ![filepath] = remoteFS[RemotePath(filepath)]]
  ELSE localFS

\* download(filepath) (lines 309-338): its return value
download(filepath, out) ==
  /\ out = "ok"
  /\ remoteFS[RemotePath(filepath)] # Absent
  /\ downloadFS(filepath, out)[filepath] # Absent

(* --------------------------- hash updates ----------------------------- *)
\* updateLocalHash(filepath) (lines 477-492): its return value
updateLocalHash(filepath) == exists(filepath)

\* config.json after updateLocalHash(filepath)
updateLocalHashData(filepath) ==
  IF exists(filepath)
  THEN json_dumps(updateConfig(json_loads(configFile.data),
                               "local_hashes",
                               Single(filepath, getMD5(filepath))))
  ELSE configFile.data

\* updateRemoteHash(filepath) (lines 449-475): its return value (None, the
\* return when md5sum prints nothing, does not arise: it prints or fails)
updateRemoteHash(filepath, conn) ==
  conn /\ remoteFS[RemotePath(filepath)] # Absent

\* config.json after updateRemoteHash(filepath)
updateRemoteHashData(filepath, conn) ==
  IF updateRemoteHash(filepath, conn)
  THEN json_dumps(updateConfig(json_loads(configFile.data),
                               "remote_hashes",
                               Single(RemotePath(filepath),
                                      MD5(remoteFS[RemotePath(filepath)]))))
  ELSE configFile.data

(* ---------------------------- sync(): flow ---------------------------- *)
\* A faulty variant of file: the list is walked from its end.
fileReversed == config.local_files[Len(config.local_files) + 1 - idx]

\* the file of the current iteration of `for file in local_files`
file == config.local_files[idx]

\* A faulty variant of SyncEnter: a file missing locally is passed over.
SyncEnterSkipsMissing(filepath) ==
  IF exists(filepath) THEN "L502" ELSE "next"

\* line 501: the branch on os.path.exists(file)
SyncEnter(filepath) == IF exists(filepath) THEN "L502" ELSE "L543"

\* A faulty variant of AfterDownload543: the result of download is dropped
\* and the hash updates run also after a failed download.
AfterDownload543Unchecked(ret) == "L544"

\* lines 543-549: `if self.download(file)`, else report and skip
AfterDownload543(ret) == IF ret THEN "L544" ELSE "next"

\* line 520: the key looked up by `file in self.config['remote_hashes']`
MembershipKey520(filepath) == filepath

\* The control flow of the loop body (lines 502-549): the position after
\* the call at `at` returned `ret`.  "next" is the end of the iteration.
SyncNext(at, ret, filepath) ==
  CASE at = "L502" ->
         IF ~ret
         THEN IF Truthy(config.local_hashes)
                 /\ HasKey(config.local_hashes, filepath)
              THEN "L505" ELSE "L511"
         ELSE "L519"
    [] at = "L505" -> "L506"
    [] at = "L506" -> "L507"
    [] at = "L507" -> "next"
    [] at = "L511" -> "L512"
    [] at = "L512" -> IF ~ret THEN "L515" ELSE "next"
    [] at = "L515" -> "L516"
    [] at = "L516" -> "L517"
    [] at = "L517" -> "next"
    [] at = "L519" ->
         IF ~ret
         THEN IF Truthy(config.remote_hashes)
                 /\ HasKey(config.remote_hashes, MembershipKey520(filepath))
              THEN "L522" ELSE "L529"
         ELSE "next"
    [] at = "L522" -> "L523"
    [] at = "L523" -> "L524"
    [] at = "L524" -> "next"
    [] at = "L529" -> "L530"
    [] at = "L530" -> IF ~ret THEN "L533" ELSE "next"
    [] at = "L533" -> "L534"
    [] at = "L534" -> "L535"
    [] at = "L535" -> "next"
    [] at = "L543" -> AfterDownload543(ret)
    [] at = "L544" -> "L545"
    [] at = "L545" -> "next"

Called(op, ret) == Append(trace, [op |-> op, ret |-> ret])

(* --------------------------- sync(): steps ---------------------------- *)
\* line 499: a cycle starts
StartCycle ==
  /\ pc = "L499"
  /\ idx' = 1
  /\ pc' = "for"
  /\ handled' = <<>>
  /\ boot' = <<>>
  /\ UNCHANGED <<config, configFile, localFS, remoteFS, envCount, pre, trace,
                 lastSync, remoteDir, store, sessions>>

\* lines 500-501: take the next tracked file, or leave the for loop
ForFile ==
  /\ pc = "for"
  /\ IF idx > Len(config.local_files)
     THEN /\ pc' = "sleep"
          /\ UNCHANGED <<pre, trace>>
     ELSE /\ pc' = SyncEnter(file)
          /\ pre' = [ local  |-> localFS[file],
                      remote |-> remoteFS[RemotePath(file)],
                      data   |-> json_loads(configFile.data),
                      cfg    |-> config ]
          /\ trace' = <<>>
  /\ UNCHANGED <<idx, config, configFile, localFS, remoteFS, envCount,
                 lastSync, handled, boot, remoteDir, store, sessions>>

\* the calls of checkLocalFile(file) at lines 502, 512 and 530
CheckLocalFile ==
  /\ pc \in {"L502", "L512", "L530"}
  /\ trace' = Called("checkLocalFile", checkLocalFile(file))
  /\ pc' = SyncNext(pc, checkLocalFile(file), file)
  /\ UNCHANGED <<idx, config, configFile, localFS, remoteFS, envCount, pre,
                 lastSync, handled, boot, remoteDir, store, sessions>>

\* the call of checkRemoteFile(file) at line 519; an exception raised in
\* it is caught nowhere and ends the process
CheckRemoteFile ==
  /\ pc = "L519"
  /\ \E conn \in BOOLEAN :
       IF checkRemoteFileRaises(file, conn)
       THEN /\ pc' = "crashed"
            /\ UNCHANGED trace
       ELSE /\ trace' = Called("checkRemoteFile",
                               checkRemoteFile(file, conn))
            /\ pc' = SyncNext(pc, checkRemoteFile(file, conn), file)
  /\ UNCHANGED <<idx, config, configFile, localFS, remoteFS, envCount, pre,
                 lastSync, handled, boot, remoteDir, store, sessions>>

\* the calls of upload(file) at lines 505 and 515; the result is dropped
Upload ==
  /\ pc \in {"L505", "L515"}
  /\ \E out \in TransferOutcomes :
       IF uploadRaises(file, out)
       THEN /\ pc' = "crashed"
            /\ UNCHANGED <<remoteFS, trace, sessions>>
       ELSE /\ remoteFS' = uploadFS(file, out)
            /\ sessions' = getSCPClient(out, sessions)
            /\ trace' = Called("upload", upload(file, out))
            /\ pc' = SyncNext(pc, upload(file, out), file)
  /\ UNCHANGED <<idx, config, configFile, localFS, envCount, pre, lastSync,
                 handled, boot, remoteDir, store>>

\* the calls of download(file) at lines 522, 533 and 543
Download ==
  /\ pc \in {"L522", "L533", "L543"}
  /\ \E out \in TransferOutcomes :
       /\ localFS' = downloadFS(file, out)
       /\ sessions' = getSCPClient(out, sessions)
       /\ trace' = Called("download", download(file, out))
       /\ pc' = SyncNext(pc, download(file, out), file)
  /\ UNCHANGED <<idx, config, configFile, remoteFS, envCount, pre, lastSync,
                 handled, boot, remoteDir, store>>

\* the calls of updateLocalHash(file) at lines 506, 511, 516, 524, 535, 544
UpdateLocalHash ==
  /\ pc \in {"L506", "L511", "L516", "L524", "L535", "L544"}
  /\ IF updateLocalHash(file) /\ updateConfigFails(store)
     THEN /\ pc' = "exit"
          /\ UNCHANGED <<configFile, trace>>
     ELSE /\ configFile' =
               [configFile EXCEPT !.data = updateLocalHashData(file)]
          /\ trace' = Called("updateLocalHash", updateLocalHash(file))
          /\ pc' = SyncNext(pc, updateLocalHash(file), file)
  /\ config' = selfConfig(config, configFile'.data)
  /\ UNCHANGED <<idx, localFS, remoteFS, envCount, pre, lastSync, handled,
                 boot, remoteDir, store, sessions>>

\* the calls of updateRemoteHash(file) at lines 507, 517, 523, 529, 534, 545
UpdateRemoteHash ==
  /\ pc \in {"L507", "L517", "L523", "L529", "L534", "L545"}
  /\ \E conn \in BOOLEAN :
       IF updateRemoteHash(file, conn) /\ updateConfigFails(store)
       THEN /\ pc' = "exit"
            /\ UNCHANGED <<configFile, trace>>
       ELSE /\ configFile' =
                 [configFile EXCEPT
                    !.data = updateRemoteHashData(file, conn)]
            /\ trace' = Called("updateRemoteHash",
                               updateRemoteHash(file, conn))
            /\ pc' = SyncNext(pc, updateRemoteHash(file, conn), file)
  /\ config' = selfConfig(config, configFile'.data)
  /\ UNCHANGED <<idx, localFS, remoteFS, envCount, pre, lastSync, handled,
                 boot, remoteDir, store, sessions>>

Did(op) == \E i \in DOMAIN trace : trace[i].op = op
DidOk(op) == \E i \in DOMAIN trace : trace[i].op = op /\ trace[i].ret
DidFail(op) == \E i \in DOMAIN trace : trace[i].op = op /\ ~trace[i].ret

\* the iteration ended with a successful transfer whose two hash updates
\* both reported success
Recorded ==
  /\ DidOk("upload") \/ DidOk("download")
  /\ DidOk("updateLocalHash")
  /\ DidOk("updateRemoteHash")

\* the end of one iteration of the for loop: on to the next file
EndFile ==
  /\ pc = "next"
  /\ idx' = idx + 1
  /\ pc' = "for"
  /\ pre' = NoPre
  /\ trace' = <<>>
  /\ lastSync' = IF Recorded
                 THEN [lastSync EXCEPT
                         ![file] = <<localFS[file],
                                     remoteFS[RemotePath(file)]>>]
                 ELSE lastSync
  /\ handled' = Append(handled, file)
  /\ UNCHANGED <<config, configFile, localFS, remoteFS, envCount, boot,
                 remoteDir, store, sessions>>

\* line 551: time.sleep(10) is over, the next cycle starts
Sleep ==
  /\ pc = "sleep"
  /\ pc' = "L499"
  /\ UNCHANGED <<idx, config, configFile, localFS, remoteFS, envCount, pre,
                 trace, lastSync, handled, boot, remoteDir, store, sessions>>

(* ---------------------------- environment ----------------------------- *)
\* While the process sleeps between two cycles the user changes, deletes or
\* recreates a tracked file.
LocalEdit ==
  /\ pc = "sleep"
  /\ envCount < MaxEnv
  /\ \E p \in Range(config.local_files) : \E c \in {Absent} \cup Contents :
       /\ c # localFS[p]
       /\ localFS' = [localFS EXCEPT ![p] = c]
       /\ lastSync' = [lastSync EXCEPT ![p] = NoSync]
  /\ envCount' = envCount + 1
  /\ UNCHANGED <<pc, idx, config, configFile, remoteFS, pre, trace, handled,
                 boot, remoteDir, store, sessions>>

\* While the process sleeps the remote copy of a tracked file is changed,
\* removed or created from elsewhere.
RemoteEdit ==
  /\ pc = "sleep"
  /\ remoteDir
  /\ envCount < MaxEnv
  /\ \E p \in Range(config.local_files) : \E c \in {Absent} \cup Contents :
       /\ c # remoteFS[RemotePath(p)]
       /\ remoteFS' = [remoteFS EXCEPT ![RemotePath(p)] = c]
       /\ lastSync' = [q \in Paths |->
                         IF RemotePath(q) = RemotePath(p)
                         THEN NoSync ELSE lastSync[q]]
  /\ envCount' = envCount + 1
  /\ UNCHANGED <<pc, idx, config, configFile, localFS, pre, trace, handled,
                 boot, remoteDir, store, sessions>>

\* While a file is being handled, after its first checkLocalFile (line
\* 502) and before its second one (line 530), the user saves new content
\* to it.
MidCycleEdit ==
  /\ pc \in {"L519", "L529", "L530"}
  /\ envCount < MaxEnv
  /\ \E c \in Contents \ {localFS[file]} :
       localFS' = [localFS EXCEPT ![file] = c]
  /\ lastSync' = [lastSync EXCEPT ![file] = NoSync]
  /\ envCount' = envCount + 1
  /\ UNCHANGED <<pc, idx, config, configFile, remoteFS, pre, trace, handled,
                 boot, remoteDir, store, sessions>>

\* Between two cycles, or while the process is down, config.json becomes
\* unreadable, unparsable or unwritable, or is repaired.
StoreFault ==
  /\ pc \in {"sleep", "exit"}
  /\ envCount < MaxEnv
  /\ \E st \in StoreStates \ {store} : store' = st
  /\ envCount' = envCount + 1
  /\ UNCHANGED <<pc, idx, config, configFile, localFS, remoteFS, pre, trace,
                 lastSync, handled, boot, remoteDir, sessions>>

\* The process is started again: after it was stopped by a signal during
\* the sleep, after sys.exit(1), or after an uncaught exception.
Restart ==
  /\ pc \in {"sleep", "exit", "crashed"}
  /\ envCount < MaxEnv
  /\ pc' = "initConfig"
  /\ idx' = 1
  /\ config' = CONFIG_TEMPLATE
  /\ pre' = NoPre
  /\ trace' = <<>>
  /\ envCount' = envCount + 1
  /\ handled' = <<>>
  /\ boot' = <<>>
  /\ sessions' = 0
  /\ UNCHANGED <<configFile, localFS, remoteFS, lastSync, remoteDir, store>>

Next ==
  \/ InitConfigLoad \/ InitConfigCreate \/ CheckConnection \/ InitLocal
  \/ InitRemote
  \/ StartCycle \/ ForFile \/ CheckLocalFile \/ CheckRemoteFile
  \/ Upload \/ Download \/ UpdateLocalHash \/ UpdateRemoteHash
  \/ EndFile \/ Sleep
  \/ LocalEdit \/ RemoteEdit \/ Restart

Spec == Init /\ [][Next]_vars

\* the program in an environment in which config.json can also go bad
NextIO == Next \/ StoreFault

SpecIO == Init /\ [][NextIO]_vars

\* the program next to a user who also edits files while they are handled
NextRace == Next \/ MidCycleEdit

SpecRace == Init /\ [][NextRace]_vars

(* ====================== properties of the program ===================== *)
\* the configuration that config.json holds
Persisted == json_loads(configFile.data)

\* the digest stored under key k of an Optional[dict]: <<digest>>, or <<>>
Stored(x, k) == IF HasKey(x, k) THEN << x.d[k] >> ELSE <<>>

\* the digest of a content, as an optional value: <<>> for a missing file
DigestNow(c) == IF c = Absent THEN <<>> ELSE << MD5(c) >>

Entries(x) == IF x.null THEN {} ELSE { <<k, x.d[k]>> : k \in DOMAIN x.d }

AtEnd == pc = "next"
Transferred == Did("upload") \/ Did("download")

\* both copies exist, the local and the remote content each differ from the
\* digest the loop compares against, and they differ from each other
DoubleChange ==
  /\ pre.local # Absent
  /\ pre.remote # Absent
  /\ HasKey(config.local_hashes, file)
  /\ Stored(config.local_hashes, file) # DigestNow(pre.local)
  /\ Stored(config.remote_hashes, RemotePath(file)) # DigestNow(pre.remote)
  /\ MD5(pre.local) # MD5(pre.remote)

\* C1: when both the local and the remote copy of a tracked file changed
\* since the stored digests and now differ, the iteration transfers
\* nothing: neither upload() nor download() runs for the file.
C1_NoSilentOverwrite ==
  (AtEnd /\ DoubleChange) => (~Did("upload") /\ ~Did("download"))

\* the local copy matches its stored digest; the remote copy exists and
\* differs from its stored digest
OnlyRemoteChanged ==
  /\ pre.local # Absent
  /\ Stored(config.local_hashes, file) = DigestNow(pre.local)
  /\ pre.remote # Absent
  /\ HasKey(config.remote_hashes, RemotePath(file))
  /\ Stored(config.remote_hashes, RemotePath(file)) # DigestNow(pre.remote)

\* C2: when only the remote copy changed, the iteration runs download()
\* for the file and no upload().
C2_OnlyRemoteChangedDownloads ==
  (AtEnd /\ OnlyRemoteChanged) => (Did("download") /\ ~Did("upload"))

\* the file was transferred and recorded in an earlier iteration, and both
\* contents are what they were then
UnchangedSinceSync ==
  /\ lastSync[file] # NoSync
  /\ pre.local = lastSync[file][1]
  /\ pre.remote = lastSync[file][2]

\* C3: after a successful, recorded transfer of a file, a later iteration
\* that finds both contents unchanged transfers nothing.
C3_ConvergenceAfterTransfer ==
  (AtEnd /\ UnchangedSinceSync) => (~Did("upload") /\ ~Did("download"))

\* the positions of sync() at which a hash update is called
UpdatePcs == {"L506", "L511", "L516", "L524", "L535", "L544",
              "L507", "L517", "L523", "L529", "L534", "L545"}

\* C4: a step that rewrites config.json keeps every other key of it and
\* every digest entry of the other files, with their values.
C4_UpdateIsMerge ==
  [][ configFile.exists =>
        /\ Persisted'.hostname = Persisted.hostname
        /\ Persisted'.port = Persisted.port
        /\ Persisted'.username = Persisted.username
        /\ Persisted'.password = Persisted.password
        /\ Persisted'.local_files = Persisted.local_files
        /\ \A e \in Entries(Persisted.local_hashes) :
             (pc \in UpdatePcs => e[1] # file)
               => e \in Entries(Persisted'.local_hashes)
        /\ \A e \in Entries(Persisted.remote_hashes) :
             (pc \in UpdatePcs => e[1] # RemotePath(file))
               => e \in Entries(Persisted'.remote_hashes) ]_vars

\* only the local copy differs from its stored digest
OnlyLocalChanged ==
  /\ pre.local # Absent
  /\ HasKey(config.local_hashes, file)
  /\ Stored(config.local_hashes, file) # DigestNow(pre.local)
  /\ Stored(config.remote_hashes, RemotePath(file)) = DigestNow(pre.remote)

\* C5: a file of which only the local copy changed is uploaded, and after
\* a completed upload or download config.json holds for the file the digest
\* of the local content and the digest of the remote content as they are
\* after the transfer.
C5_PostTransferTruth ==
  AtEnd =>
    /\ OnlyLocalChanged => Did("upload")
    /\ (DidOk("upload") \/ DidOk("download")) =>
         /\ Stored(Persisted.local_hashes, file)
              = DigestNow(localFS[file])
         /\ Stored(Persisted.remote_hashes, RemotePath(file))
              = DigestNow(remoteFS[RemotePath(file)])

\* C6: an iteration in which upload() or download() failed leaves the
\* file's two digests in config.json as they were.
C6_FailedTransferLeavesStore ==
  (AtEnd /\ (DidFail("upload") \/ DidFail("download"))) =>
    /\ Stored(Persisted.local_hashes, file)
         = Stored(pre.data.local_hashes, file)
    /\ Stored(Persisted.remote_hashes, RemotePath(file))
         = Stored(pre.data.remote_hashes, RemotePath(file))

\* C7: no failure met while a file is handled ends the process.
C7_LoopSurvives == pc # "crashed"

\* C8: a file missing locally and remotely is reported and skipped (the
\* failed download is the only call), and neither config.json nor the
\* in-memory configuration is changed by its handling.
C8_MissingBothNoMutation ==
  (AtEnd /\ pre.local = Absent /\ pre.remote = Absent) =>
    /\ trace = << [op |-> "download", ret |-> FALSE] >>
    /\ Persisted = pre.data
    /\ config = pre.cfg

C8_Witness ==
  /\ AtEnd
  /\ pre.local = Absent
  /\ pre.remote = Absent
  /\ DidFail("download")
  /\ Truthy(Persisted.local_hashes)

\* C9: a file missing locally whose remote copy exists is downloaded and
\* not uploaded, whatever digests are stored for it.
C9_LostLocalRestored ==
  (AtEnd /\ pre.local = Absent /\ pre.remote # Absent) =>
    (Did("download") /\ ~Did("upload"))

C9_Witness ==
  /\ AtEnd
  /\ pre.local = Absent
  /\ pre.remote # Absent
  /\ DidOk("download")
  /\ localFS[file] = pre.remote
  /\ HasKey(config.local_hashes, file)

\* the file exists locally, the loop has no local and no remote digest for
\* it, and there is no remote copy
FreshFile ==
  /\ pre.local # Absent
  /\ ~HasKey(config.local_hashes, file)
  /\ ~HasKey(config.remote_hashes, RemotePath(file))
  /\ ~HasKey(config.remote_hashes, file)
  /\ pre.remote = Absent

\* C10: a fresh file is uploaded and never downloaded.
C10_FreshFileUploaded ==
  (AtEnd /\ FreshFile) => (Did("upload") /\ ~Did("download"))

C10_Witness ==
  /\ AtEnd
  /\ FreshFile
  /\ DidOk("upload")
  /\ remoteFS[RemotePath(file)] = pre.local

\* both copies exist and hold the same content, which differs from the
\* stored local digest and from the stored remote digest
ConvergedApart ==
  /\ pre.local # Absent
  /\ pre.remote # Absent
  /\ HasKey(config.local_hashes, file)
  /\ Stored(config.local_hashes, file) # DigestNow(pre.local)
  /\ Stored(config.remote_hashes, RemotePath(file)) # DigestNow(pre.remote)
  /\ MD5(pre.local) = MD5(pre.remote)

\* C11: when both copies changed to the same content, the iteration is a
\* no-op: neither upload() nor download() runs for the file.
C11_IndependentConvergenceNoOp ==
  (AtEnd /\ ConvergedApart) => (~Did("upload") /\ ~Did("download"))

Tracked == Range(config.local_files)

\* C15: every tracked file's remote digest is looked up by sync() under
\* the key under which checkRemoteFile and updateRemoteHash keep it, and
\* two distinct tracked files never share that key (their remote location).
C15_OneKeyPerFile ==
  /\ \A f \in Tracked : MembershipKey520(f) = RemotePath(f)
  /\ \A f, g \in Tracked : f # g => RemotePath(f) # RemotePath(g)

\* the positions of __init__ and __main__ before sync() is entered
StartupPcs == {"initConfig", "checkConnection", "initLocal", "initRemote"}

\* the startup ran initConfig, initLocal and initRemote, in this order, and
\* each of them succeeded
BootOk ==
  /\ Len(boot) = 3
  /\ boot[1].step = "initConfig" /\ boot[1].ret
  /\ boot[2].step = "initLocal" /\ boot[2].ret
  /\ boot[3].step = "initRemote" /\ boot[3].ret

\* C14: sync() is entered only after the state was loaded or created and
\* initLocal() and initRemote() returned True, in this order; a failed
\* startup step ends the process with exit code 1 before any cycle; and
\* once sync() is entered the process neither exits nor dies by itself.
C14_StartupGating ==
  /\ (pc = "L499" /\ boot # <<>>) => BootOk
  /\ \A i \in DOMAIN boot :
       ~boot[i].ret => (pc = "exit" /\ i = Len(boot))
  /\ (pc = "exit" /\ boot # <<>>) => ~boot[Len(boot)].ret
  /\ pc # "crashed"
  /\ ~(pc = "exit" /\ boot = <<>>)

\* C19: within a cycle the tracked files are handled one at a time in the
\* order of the list, each once; nothing of a file is pending when the next
\* one is taken; the sleep starts when all files were handled, and a cycle
\* starts after the startup or after a complete cycle and its sleep.
C19_SequentialCycles ==
  /\ (pc \notin StartupPcs \cup {"exit", "L499", "sleep"}) =>
       /\ idx - 1 <= Len(config.local_files)
       /\ handled = SubSeq(config.local_files, 1, idx - 1)
  /\ pc = "for" => (trace = <<>> /\ pre = NoPre)
  /\ pc = "sleep" => handled = config.local_files
  /\ pc = "L499" => (boot # <<>> \/ handled = config.local_files)

C19_Witness ==
  /\ pc = "sleep"
  /\ Len(handled) >= 2
  /\ handled = config.local_files
  /\ envCount > 0

\* C20: initRemote() returns True when it created the folder and when the
\* folder was already there, so against a reachable host it returns True
\* whenever the folder exists afterwards; it returns False only without a
\* session or when mkdir failed for another reason.
C20_InitRemoteIdempotent ==
  \A i \in DOMAIN boot :
    boot[i].step = "initRemote" =>
      /\ boot[i].out \in {"created", "exists"} => boot[i].ret
      /\ (remoteDir /\ boot[i].out # "noconn") => boot[i].ret
      /\ ~boot[i].ret => boot[i].out \in {"noconn", "failed"}
      /\ boot[i].ret <=> pc = "L499"

C20_Witness ==
  /\ pc = "L499"
  /\ boot # <<>>
  /\ boot[Len(boot)].step = "initRemote"
  /\ boot[Len(boot)].out = "exists"
  /\ boot[Len(boot)].stderr = "File exists"
  /\ boot[Len(boot)].ret
  /\ envCount > 0
\* the positions of sync() at which updateLocalHash is called
LocalUpdatePcs == {"L506", "L511", "L516", "L524", "L535", "L544"}

C13_CorruptStateRejected ==
  [][ /\ (pc = "initConfig" /\ configFile.exists
            /\ store \in {"unreadable", "corrupt"}) =>
           /\ pc' = "exit"
           /\ UNCHANGED <<config, configFile, localFS, remoteFS, remoteDir,
                          sessions, trace>>
      /\ (boot # <<>> /\ boot[1].step = "initConfig" /\ ~boot[1].ret) =>
           /\ pc = "exit"
           /\ Len(boot) = 1
           /\ pc' \in {"exit", "initConfig"} ]_vars

C13_Witness ==
  /\ pc = "exit"
  /\ boot = << Booted("initConfig", "corrupt", "", FALSE) >>
\* C16: a configuration written to config.json and read back is the same
\* value: the value the process holds survives json.dumps followed by
\* json.loads, the file written at first-run setup parses to the value that
\* setup returned, a started process holds exactly what the file spells,
\* and what the file spells parses and prints back to the same text.
C16_StateRoundTrip ==
  [][ /\ json_loads(json_dumps(config')) = config'
      /\ (pc = "initConfig" /\ ~configFile.exists) =>
           json_loads(configFile'.data) = config'
      /\ (pc = "initConfig" /\ pc' = "checkConnection") =>
           config' = json_loads(configFile'.data)
      /\ configFile'.exists =>
           json_dumps(json_loads(configFile'.data)) = configFile'.data ]_vars

C16_Witness ==
  /\ pc = "checkConnection"
  /\ boot = << Booted("initConfig", "loaded", "", TRUE) >>
  /\ config.local_hashes = None
  /\ Truthy(config.remote_hashes)
  /\ config.local_files # <<>>
  /\ config = Persisted
\* C17: whenever download() is about to run for a file that exists
\* locally, the local content has the digest stored as the file's local
\* digest, also when the user edits the file while it is being handled.
C17_DownloadKeepsLocalChange ==
  (pc \in {"L522", "L533", "L543"} /\ exists(file)) =>
    Stored(config.local_hashes, file) = DigestNow(localFS[file])
\* C18: the running process never holds more than one remote session
\* open, and holds none while it sleeps between two cycles.
C18_AtMostOneSession ==
  /\ sessions <= 1
  /\ pc = "sleep" => sessions = 0
\* C21: a configuration with an empty list of tracked files is never
\* saved: whenever config.json exists, its local_files is not empty.
C21_TrackedListNotEmpty ==
  configFile.exists => Persisted.local_files # <<>>
\* C22: self.config is what initConfig loaded or created, and no step
\* after initConfig changes it while the process runs: the configuration
\* the checks compare against is the one the handling of a file started
\* with, whatever was written to config.json meanwhile.
C22_ConfigFrozen ==
  [][ /\ (pc = "initConfig" /\ pc' = "checkConnection") =>
           config' = json_loads(configFile'.data)
      /\ (pc # "initConfig" /\ pc' # "initConfig") => config' = config
      /\ pre' # NoPre => config' = pre'.cfg ]_vars

C22_Witness ==
  /\ AtEnd
  /\ DidOk("updateLocalHash")
  /\ DidOk("updateRemoteHash")
  /\ config = pre.cfg
  /\ config.local_hashes # Persisted.local_hashes
  /\ config.remote_hashes # Persisted.remote_hashes
=============================================================================
